---- MODULE Spec2Model ----
(***************************************************************************)
(* Model of plotlib.plot_mod.plot_band (src/plotlib/plot_mod.py:275-314):  *)
(* the double loop that computes the lower/upper envelope of a series and  *)
(* the two draw calls that follow it.                                      *)
(*                                                                         *)
(* Reals are modelled by integers: the code only subtracts, takes abs and  *)
(* compares, so the order structure is all that matters.  Sequences are    *)
(* 1-based here, 0-based in the source.                                    *)
(***************************************************************************)
EXTENDS Integers, Sequences, FiniteSets, TLC

\* ---------------------------------------------------------------- bounds
MaxLen == 3        \* longest series drawn by Init
MaxX == 1          \* x samples are drawn from 0..MaxX
MaxY == 2          \* y samples are drawn from 0..MaxY
MaxWidth == 2      \* width is drawn from -1..MaxWidth

\* ------------------------------------------------------ program constants
PosInf == 1000     \* float("inf"): above every sample
NegInf == -1000    \* -float("inf"): below every sample
AlphaTenths == 7   \* alpha=0.7, in tenths
MarkerSize == 15   \* ms=15
Outside == -1      \* the proxy point plt.plot(-1, -1, ...)

XVals == 0..MaxX
YVals == 0..MaxY
Widths == -1..MaxWidth

SeqsUpTo(S, n) == UNION {[1..k -> S] : k \in 1..n}

Schemes == {[colour |-> "red", label |-> "theory"],
            [colour |-> "blue", label |-> "band"]}

VARIABLES x_data, y_data, width, scheme,
          lower_y, upper_y, index, j, pc, err, requests

vars == <<x_data, y_data, width, scheme,
          lower_y, upper_y, index, j, pc, err, requests>>

inputs == <<x_data, y_data, width, scheme>>

\* ------------------------------------------------------------ pure parts
Abs(a) == IF a < 0 THEN -a ELSE a

MinOf(a, b) == IF a < b THEN a ELSE b

\* np.full(len(y_data), v)
Full(n, v) == [k \in 1..n |-> v]

\* zip(x_data, y_data) stops at the shorter of the two
ZipLen(xs, ys) == MinOf(Len(xs), Len(ys))

\* the neighbour test with a non-strict comparison
WithinInclusive(x, x_prime, w) == Abs(x - x_prime) <= w

\* the neighbour test of the inner loop: abs(x - x_prime) < width
Within(x, x_prime, w) == Abs(x - x_prime) < w

\* the inner branch with a bare else: every sample that is not a new minimum
\* overwrites the upper bound
UpdateBoundsElse(lo, up, y_prime) ==
    IF y_prime < lo THEN <<y_prime, up>>
    ELSE <<lo, y_prime>>

\* the if / elif of the inner loop, on the pair (lower_y[index], upper_y[index])
UpdateBounds(lo, up, y_prime) ==
    IF y_prime < lo THEN <<y_prime, up>>
    ELSE IF y_prime > up THEN <<lo, y_prime>>
    ELSE <<lo, up>>

\* the inner loop for one index, from position k of the zip onwards
RECURSIVE RowFrom(_, _, _, _, _, _)
RowFrom(xs, ys, w, i, k, b) ==
    IF k > ZipLen(xs, ys) THEN b
    ELSE RowFrom(xs, ys, w, i, k + 1,
                 IF Within(xs[i], xs[k], w)
                 THEN UpdateBounds(b[1], b[2], ys[k])
                 ELSE b)

\* the whole double loop as a function of its inputs (equal lengths)
BandOf(xs, ys, w) ==
    LET row(i) == RowFrom(xs, ys, w, i, 1, <<PosInf, NegInf>>)
    IN [lower |-> [i \in 1..Len(ys) |-> row(i)[1]],
        upper |-> [i \in 1..Len(ys) |-> row(i)[2]]]

\* ---------------------------------------------------------- draw requests
FillRequest ==
    [op |-> "fill_between", target |-> "ax", x |-> x_data,
     y1 |-> lower_y, y2 |-> upper_y,
     colour |-> scheme.colour, alpha |-> AlphaTenths]

ProxyRequest ==
    [op |-> "plot", target |-> "plt", x |-> Outside, y |-> Outside,
     fmt |-> "s", colour |-> scheme.colour, label |-> scheme.label,
     alpha |-> AlphaTenths, ms |-> MarkerSize]

\* ------------------------------------------------------------------ Init
InitCommon ==
    /\ scheme \in Schemes
    /\ lower_y = <<>>
    /\ upper_y = <<>>
    /\ index = 1
    /\ j = 1
    /\ pc = "start"
    /\ err = "none"
    /\ requests = <<>>

InitBounded ==
    /\ x_data \in SeqsUpTo(XVals, MaxLen)
    /\ y_data \in SeqsUpTo(YVals, MaxLen)
    /\ width \in Widths
    /\ InitCommon

\* the worked example x = [0,1,2,3], y = [5,1,9,3], width = 1.5,
\* with x and width in units of one half
InitExample ==
    /\ x_data = <<0, 2, 4, 6>>
    /\ y_data = <<5, 1, 9, 3>>
    /\ width = 3
    /\ InitCommon

Init == InitBounded \/ InitExample

\* --------------------------------------------------------------- actions
\* lines 296-297: allocate the two arrays of sentinels
Allocate ==
    /\ pc = "start"
    /\ upper_y' = Full(Len(y_data), NegInf)
    /\ lower_y' = Full(Len(y_data), PosInf)
    /\ pc' = "loop"
    /\ UNCHANGED <<inputs, index, j, err, requests>>

\* where the two loops go after the pair (index, j)
Advance ==
    IF j < ZipLen(x_data, y_data)
    THEN /\ j' = j + 1
         /\ UNCHANGED <<index, pc>>
    ELSE /\ j' = 1
         /\ index' = index + 1
         /\ pc' = IF index < Len(x_data) THEN "loop" ELSE "fill"

\* lines 298-304: one pass of the inner loop body
LoopBody ==
    /\ pc = "loop"
    /\ IF Within(x_data[index], x_data[j], width)
       THEN /\ index <= Len(y_data)
            /\ LET b == UpdateBounds(lower_y[index], upper_y[index], y_data[j])
               IN /\ lower_y' = [lower_y EXCEPT ![index] = b[1]]
                  /\ upper_y' = [upper_y EXCEPT ![index] = b[2]]
       ELSE UNCHANGED <<lower_y, upper_y>>
    /\ Advance
    /\ UNCHANGED <<inputs, err, requests>>

\* line 301: lower_y[index] with index beyond len(y_data) raises IndexError
LoopIndexError ==
    /\ pc = "loop"
    /\ Within(x_data[index], x_data[j], width)
    /\ index > Len(y_data)
    /\ pc' = "raised"
    /\ err' = "IndexError"
    /\ UNCHANGED <<inputs, lower_y, upper_y, index, j, requests>>

\* the fill-between request with the two bounds in each other's place
FillBetweenSwapped ==
    /\ pc = "fill"
    /\ requests' = Append(requests,
                          [FillRequest EXCEPT !.y1 = upper_y, !.y2 = lower_y])
    /\ pc' = "proxy"
    /\ UNCHANGED <<inputs, lower_y, upper_y, index, j, err>>

\* line 307: the fill-between request, accepted by the backend
FillBetween ==
    /\ pc = "fill"
    /\ requests' = Append(requests, FillRequest)
    /\ pc' = "proxy"
    /\ UNCHANGED <<inputs, lower_y, upper_y, index, j, err>>

\* line 307: the backend may reject arrays of different lengths
FillBetweenRejected ==
    /\ pc = "fill"
    /\ Len(x_data) # Len(lower_y)
    /\ requests' = Append(requests, FillRequest)
    /\ pc' = "raised"
    /\ err' = "BackendError"
    /\ UNCHANGED <<inputs, lower_y, upper_y, index, j>>

\* lines 310-314: the proxy point for the legend
PlotProxy ==
    /\ pc = "proxy"
    /\ requests' = Append(requests, ProxyRequest)
    /\ pc' = "done"
    /\ UNCHANGED <<inputs, lower_y, upper_y, index, j, err>>

Next ==
    \/ Allocate
    \/ LoopBody
    \/ LoopIndexError
    \/ FillBetween
    \/ FillBetweenRejected
    \/ PlotProxy

Spec == Init /\ [][Next]_vars

\* ------------------------------------------------------------ type check
TypeOK ==
    /\ pc \in {"start", "loop", "fill", "proxy", "done", "raised"}
    /\ err \in {"none", "IndexError", "BackendError"}
    /\ Len(lower_y) = Len(upper_y)
    /\ Len(requests) <= 2

\* the loop of the state machine agrees with the loop as a function
LoopIsBandOf ==
    (pc \in {"fill", "proxy", "done"} /\ Len(x_data) = Len(y_data))
        => /\ lower_y = BandOf(x_data, y_data, width).lower
           /\ upper_y = BandOf(x_data, y_data, width).upper

\* ------------------------------------------------- vocabulary of the claims
\* the call was made on valid input: equal lengths and a tolerance >= 0
Valid == Len(x_data) = Len(y_data) /\ width >= 0

\* the double loop has run to its end
LoopDone == pc \in {"fill", "proxy", "done"}

\* the indices within the tolerance of index i (strict test, i included)
Nbrs(xs, w, i) == {k \in 1..Len(xs) : Abs(xs[i] - xs[k]) < w}

SetMin(S) == CHOOSE m \in S : \A e \in S : m <= e
SetMax(S) == CHOOSE m \in S : \A e \in S : m >= e

NbrYs(i) == {y_data[k] : k \in Nbrs(x_data, width, i)}

Perms(n) == {p \in [1..n -> 1..n] : \A a, b \in 1..n : p[a] = p[b] => a = b}
Permute(s, p) == [k \in 1..Len(s) |-> s[p[k]]]

\* C1: after the band computation on valid input, every index with at least
\* one neighbour has lower = minimum and upper = maximum of the neighbours' y;
\* the worked example (x, width in halves) gives lower = [1,1,1,3] and
\* upper = [5,9,9,9].
C1_BandIsMinMax ==
    (LoopDone /\ Valid) =>
        /\ \A i \in 1..Len(x_data) :
              NbrYs(i) # {} =>
                  /\ lower_y[i] = SetMin(NbrYs(i))
                  /\ upper_y[i] = SetMax(NbrYs(i))
        /\ (x_data = <<0, 2, 4, 6>> /\ y_data = <<5, 1, 9, 3>> /\ width = 3)
              => /\ lower_y = <<1, 1, 1, 3>>
                 /\ upper_y = <<5, 9, 9, 9>>

\* C2: at the end of the band computation every index that has at least one
\* neighbour satisfies lower[i] <= upper[i].
C2_LowerLeUpper ==
    (LoopDone /\ Len(x_data) = Len(y_data)) =>
        \A i \in 1..Len(x_data) :
            Nbrs(x_data, width, i) # {} => lower_y[i] <= upper_y[i]

\* C3: for a single sample, width > 0 gives lower[0] = upper[0] = y[0], and
\* width = 0 reports the index as NoNeighbors instead of a numeric bound.
C3_SingleSample ==
    (LoopDone /\ Valid /\ Len(x_data) = 1) =>
        /\ width > 0 => (lower_y[1] = y_data[1] /\ upper_y[1] = y_data[1])
        /\ width = 0 => (lower_y[1] \notin Int /\ upper_y[1] \notin Int)

\* C4: the band computation is order-independent: the bounds of the permuted
\* series are the permuted bounds, for every permutation of the indices.
C4_OrderIndependent ==
    (LoopDone /\ Len(x_data) = Len(y_data)) =>
        \A p \in Perms(Len(x_data)) :
            LET b == BandOf(Permute(x_data, p), Permute(y_data, p), width)
            IN /\ b.lower = Permute(lower_y, p)
               /\ b.upper = Permute(upper_y, p)

\* C5: the bounds are monotone in the tolerance: for 0 <= width1 < width2 the
\* lower bound at width2 is <= the one at width1 and the upper bound at width2
\* is >= the one at width1, at every index (sentinels compared as infinities).
C5_MonotoneInWidth ==
    (LoopDone /\ Valid) =>
        \A w2 \in (width + 1)..(MaxWidth + 1) :
            LET b == BandOf(x_data, y_data, w2)
            IN \A i \in 1..Len(x_data) :
                  /\ b.lower[i] <= lower_y[i]
                  /\ b.upper[i] >= upper_y[i]

\* a run where a wider tolerance strictly raises a numeric upper bound at one
\* index and strictly lowers a numeric lower bound at another
C5_Witness ==
    /\ pc = "done" /\ Valid
    /\ \E w2 \in (width + 1)..MaxWidth :
          LET b == BandOf(x_data, y_data, w2)
          IN /\ \E i \in 1..Len(x_data) :
                    upper_y[i] # NegInf /\ b.upper[i] > upper_y[i]
             /\ \E i \in 1..Len(x_data) :
                    lower_y[i] # PosInf /\ b.lower[i] < lower_y[i]

\* C6: when x and y differ in length the computation fails before producing
\* bounds: it never completes the loop and no draw request reaches the backend.
C6_ShapeMismatchFails ==
    Len(x_data) # Len(y_data) =>
        /\ requests = <<>>
        /\ ~LoopDone

\* C7: when width < 0 the computation fails at once: it does not complete with
\* bounds and issues no draw request.
C7_NegativeWidthFails ==
    width < 0 =>
        /\ requests = <<>>
        /\ ~LoopDone

\* C8: no value of a fill-between request is the internal sentinel (+infinity
\* in lower, -infinity in upper).
C8_NoSentinelInFill ==
    \A r \in 1..Len(requests) :
        requests[r].op = "fill_between" =>
            /\ \A k \in 1..Len(requests[r].y1) : requests[r].y1[k] # PosInf
            /\ \A k \in 1..Len(requests[r].y2) : requests[r].y2[k] # NegInf

\* C9: a call on valid input never fails and issues exactly two draw requests,
\* in order and only after the bounds of all N indices are computed: one
\* fill-between over x with the computed lower and upper, scheme.colour and
\* opacity 0.7, then one legend proxy with scheme.colour and scheme.label.
C9_TwoRequestsInOrder ==
    Valid =>
        /\ pc # "raised"
        /\ pc \in {"start", "loop", "fill"} => requests = <<>>
        /\ requests # <<>> =>
              /\ index = Len(x_data) + 1
              /\ requests[1].op = "fill_between"
              /\ requests[1].x = x_data
              /\ requests[1].y1 = BandOf(x_data, y_data, width).lower
              /\ requests[1].y2 = BandOf(x_data, y_data, width).upper
              /\ requests[1].colour = scheme.colour
              /\ requests[1].alpha = 7
        /\ pc = "proxy" => Len(requests) = 1
        /\ pc = "done" =>
              /\ Len(requests) = 2
              /\ requests[2].op = "plot"
              /\ requests[2].colour = scheme.colour
              /\ requests[2].label = scheme.label

\* a completed call on a series of at least two samples
C9_Witness ==
    /\ pc = "done" /\ Valid
    /\ Len(x_data) >= 2
    /\ Len(requests) = 2

\* C10: whatever the order of the samples, lower[i] ends at the exact minimum y
\* of i's neighbours (+infinity if none) and upper[i] ends at -infinity or at
\* the y of a neighbour, so it never exceeds the neighbours' maximum.
C10_LowerExactUpperSound ==
    (LoopDone /\ Len(x_data) = Len(y_data)) =>
        \A i \in 1..Len(x_data) :
            /\ lower_y[i] = IF NbrYs(i) = {} THEN PosInf ELSE SetMin(NbrYs(i))
            /\ upper_y[i] = NegInf \/ upper_y[i] \in NbrYs(i)
            /\ NbrYs(i) # {} => upper_y[i] <= SetMax(NbrYs(i))

\* a run with an index whose upper bound is the y of a neighbour and yet lies
\* strictly below the maximum y of its neighbours
C10_Witness ==
    /\ pc = "done" /\ Valid
    /\ \E i \in 1..Len(x_data) :
          /\ upper_y[i] # NegInf
          /\ upper_y[i] < SetMax(NbrYs(i))
          /\ lower_y[i] = SetMin(NbrYs(i))
====
